---- MODULE Spec2Model ----
(***************************************************************************)
(* A model of the two converters of this repository:                       *)
(*   xml_to_appian_recordtype_md.py      (one document, "single" script)   *)
(*   map_xml_to_appian_recordtype_md.py  (a directory,  "batch" script)    *)
(*                                                                         *)
(* A Python str is a sequence of one-character strings, so that trimming,  *)
(* regular-expression substitution, splitting, joining and f-string        *)
(* formatting are computed character by character as the code does.        *)
(* Python's None is the value None below, which is no str.                 *)
(***************************************************************************)
EXTENDS Naturals, Sequences, FiniteSets, TLC

VARIABLES
    \* the slug operation: an entity name and what each function makes of it
    sName, sPc, slug1, slug2, snake1, snake2, tagSingle, tagBatch,
    \* the normalizers: a raw token and what each normalizer makes of it
    nRaw, nPc, nType, nKind,
    \* one conversion: the script, the document, the record and the markdown
    script, doc, cPc, rec, md,
    \* process_directory: the directories, the loop and what it printed
    in_dir, out_dir, xml_files, bPc, idx, count_ok, log, returned

slugVars == << sName, sPc, slug1, slug2, snake1, snake2, tagSingle, tagBatch >>

normVars == << nRaw, nPc, nType, nKind >>

convVars == << script, doc, cPc, rec, md >>

batchVars == << in_dir, out_dir, xml_files, bPc, idx, count_ok, log, returned >>

vars == << slugVars, normVars, convVars, batchVars >>

\* ------------------------------------------------------------------ bounds

\* Longest enumerated input string of the normalizers.
MaxLen == 3

\* Longest enumerated identifier or name put into a reference string.
MaxIdLen == 1

\* Most elements of one kind (fields, relationships, actions) in a document.
MaxElems == 2

\* Most .xml files in the input directory.
MaxFiles == 3

\* ------------------------------------------------------------- characters

None == << "<None>" >>

\* The backtick character, which a string literal of this language cannot hold.
BQ == "<backtick>"

UpperSeq ==
    << "A","B","C","D","E","F","G","H","I","J","K","L","M","N","O","P","Q","R","S","T","U","V",
       "W","X","Y","Z" >>

LowerSeq ==
    << "a","b","c","d","e","f","g","h","i","j","k","l","m","n","o","p","q","r","s","t","u","v",
       "w","x","y","z" >>

DigitSeq ==
    << "0","1","2","3","4","5","6","7","8","9" >>

Range(s) == { s[i] : i \in DOMAIN s }

\* The characters str.strip() and str.split() treat as whitespace.
Whitespace == { " ", "\t", "\n", "\r" }

\* The class [A-Za-z0-9] of the regular expression.
IsAlnum(c) == c \in Range(UpperSeq) \cup Range(LowerSeq) \cup Range(DigitSeq)

\* str.lower() on one character.
LowerChar(c) ==
    IF c \in Range(UpperSeq)
    THEN LowerSeq[CHOOSE i \in DOMAIN UpperSeq : UpperSeq[i] = c]
    ELSE c

\* str.lower()
Lower(s) == [ i \in DOMAIN s |-> LowerChar(s[i]) ]

\* str.replace(a, b) for one-character a and b.
ReplaceChar(s, a, b) == [ i \in DOMAIN s |-> IF s[i] = a THEN b ELSE s[i] ]

RECURSIVE LStripChars(_, _)
LStripChars(s, cs) ==
    IF s # << >> /\ Head(s) \in cs THEN LStripChars(Tail(s), cs) ELSE s

RECURSIVE RStripChars(_, _)
RStripChars(s, cs) ==
    IF s # << >> /\ s[Len(s)] \in cs
    THEN RStripChars(SubSeq(s, 1, Len(s) - 1), cs)
    ELSE s

\* str.strip(chars)
StripChars(s, cs) == RStripChars(LStripChars(s, cs), cs)

\* str.strip()
Strip(s) == StripChars(s, Whitespace)

RECURSIVE SkipNonAlnum(_)
SkipNonAlnum(s) ==
    IF s # << >> /\ ~IsAlnum(Head(s)) THEN SkipNonAlnum(Tail(s)) ELSE s

\* re.sub(r"[^A-Za-z0-9]+", rep, s): every maximal run becomes one rep.
RECURSIVE ReSubNonAlnum(_, _)
ReSubNonAlnum(rep, s) ==
    IF s = << >> THEN << >>
    ELSE IF IsAlnum(Head(s)) THEN << Head(s) >> \o ReSubNonAlnum(rep, Tail(s))
    ELSE rep \o ReSubNonAlnum(rep, SkipNonAlnum(s))

RECURSIVE TakeWord(_)
TakeWord(s) ==
    IF s = << >> \/ Head(s) \in Whitespace THEN << >>
    ELSE << Head(s) >> \o TakeWord(Tail(s))

\* str.split(): the maximal runs of non-whitespace, in order.
RECURSIVE Split(_)
Split(s) ==
    LET t == LStripChars(s, Whitespace)
        w == TakeWord(t)
    IN  IF t = << >> THEN << >>
        ELSE << w >> \o Split(SubSeq(t, Len(w) + 1, Len(t)))

\* sep.join(parts)
RECURSIVE Join(_, _)
Join(sep, parts) ==
    IF parts = << >> THEN << >>
    ELSE IF Len(parts) = 1 THEN parts[1]
    ELSE parts[1] \o sep \o Join(sep, Tail(parts))

\* Python truthiness of a str-or-None value, and the `or` operator on them.
Truthy(v) == v # None /\ v # << >>

PyOr(a, b) == IF Truthy(a) THEN a ELSE b

\* What an f-string writes for a str-or-None value.
Fmt(v) == IF v = None THEN << "N","o","n","e" >> ELSE v

\* ------------------------------------------------------------ normalizers

RECORD_TYPE ==
    << "r","e","c","o","r","d","_","t","y","p","e" >>

\* A plausible slip: trimming the separator before the substitution creates it.
slug_TrimFirst(name) ==
    Lower(ReSubNonAlnum(<< "_" >>, StripChars(name, { "_" })))

\* slug() of the single script.
slug(name) ==
    Lower(StripChars(ReSubNonAlnum(<< "_" >>, name), { "_" }))

\* A plausible slip: the parts are joined without being lowercased.
to_snake_case_NoLower(s) ==
    LET parts == Split(ReSubNonAlnum(<< " " >>, Strip(PyOr(s, << >>))))
    IN  IF parts # << >> THEN Join(<< "_" >>, parts) ELSE RECORD_TYPE

\* to_snake_case() of the batch script.
to_snake_case(s) ==
    LET stripped == Strip(PyOr(s, << >>))
        spaced   == ReSubNonAlnum(<< " " >>, stripped)
        parts    == [ i \in DOMAIN Split(spaced) |-> Lower(Split(spaced)[i]) ]
    IN  IF parts # << >> THEN Join(<< "_" >>, parts) ELSE RECORD_TYPE

TYPE_MAP ==
    ( << "I","n","t" >> :> << "I","n","t","e","g","e","r" >> ) @@
    ( << "I","n","t","e","g","e","r" >> :> << "I","n","t","e","g","e","r" >> ) @@
    ( << "L","o","n","g" >> :> << "I","n","t","e","g","e","r" >> ) @@
    ( << "T","e","x","t" >> :> << "T","e","x","t" >> ) @@
    ( << "B","o","o","l","e","a","n" >> :> << "B","o","o","l","e","a","n" >> ) @@
    ( << "D","a","t","e" >> :> << "D","a","t","e" >> ) @@
    ( << "D","a","t","e","t","i","m","e" >> :> << "D","a","t","e","t","i","m","e" >> ) @@
    ( << "U","s","e","r" >> :> << "U","s","e","r" >> ) @@
    ( << "C","o","l","l","a","b","o","r","a","t","i","o","n","D","o","c","u","m","e","n","t" >>
            :> << "C","o","l","l","a","b","o","r","a","t","i","o","n","D",
                                       "o","c","u","m","e","n","t" >> ) @@
    ( << "D","o","c","u","m","e","n","t" >> :> << "D","o","c","u","m","e","n","t" >> ) @@
    ( << "G","u","i","d" >> :> << "T","e","x","t" >> )

REL_MAP ==
    ( << "O","N","E","_","T","O","_","M","A","N","Y" >>
            :> << "o","n","e","-","t","o","-","m","a","n","y" >> ) @@
    ( << "M","A","N","Y","_","T","O","_","O","N","E" >>
            :> << "m","a","n","y","-","t","o","-","o","n","e" >> ) @@
    ( << "O","N","E","_","T","O","_","O","N","E" >>
            :> << "o","n","e","-","t","o","-","o","n","e" >> ) @@
    ( << "M","A","N","Y","_","T","O","_","M","A","N","Y" >>
            :> << "m","a","n","y","-","t","o","-","m","a","n","y" >> )

\* dict.get(key, default)
DictGet(d, key, default) == IF key \in DOMAIN d THEN d[key] ELSE default

\* t.split("}", 1)[1]: what follows the first closing brace.
AfterFirstBrace(t) ==
    LET k == CHOOSE i \in DOMAIN t : t[i] = "}" /\ \A j \in 1 .. (i - 1) : t[j] # "}"
    IN  SubSeq(t, k + 1, Len(t))

\* A plausible slip: the dictionary is asked before the prefix is discarded.
friendly_type_LookupFirst(type_text) ==
    LET t == DictGet(TYPE_MAP, Strip(PyOr(type_text, << >>)), Strip(PyOr(type_text, << >>)))
    IN  IF t # << >> /\ t[1] = "{" /\ "}" \in Range(t) THEN AfterFirstBrace(t) ELSE t

\* friendly_type(), the same in both scripts.
friendly_type(type_text) ==
    LET t0 == Strip(PyOr(type_text, << >>))
        t  == IF t0 # << >> /\ t0[1] = "{" /\ "}" \in Range(t0)
              THEN AfterFirstBrace(t0)
              ELSE t0
    IN  DictGet(TYPE_MAP, t, t)

\* raw = (rcfg.findtext("relationshipType") or "").strip()
RelRaw(text) == Strip(PyOr(text, << >>))

\* rtype = REL_MAP.get(raw, raw.lower().replace("_", "-"))
RelType(raw) == DictGet(REL_MAP, raw, ReplaceChar(Lower(raw), "_", "-"))

\* The tag of render_markdown in each script.
TagSingle(name) == PyOr(slug(name), RECORD_TYPE)

TagBatch(name) == to_snake_case(name)

\* ------------------------------------------------------------ the extractor
\* A document is what ElementTree makes of the file: malformed (ET.parse
\* raises), without a <recordType> child of the root (ValueError), or a
\* recordType element.  An attribute or a sub-element that is absent is None;
\* fields, rels, listActions and relatedActions are the elements that the
\* four findall() calls match, in document order.

\* Element.findtext(path, default)
FindText(text, default) == IF text = None THEN default ELSE text

\* A plausible slip: `or` where the code says `and`.
Retained_Either(a, b) == Truthy(a) \/ Truthy(b)

\* `if fname and fuuid`, `if ruuid and rname`, `if auuid and akey`
Retained(a, b) == Truthy(a) /\ Truthy(b)

RECURSIVE ParseFields(_)
ParseFields(elems) ==
    IF elems = << >> THEN << >>
    ELSE LET f     == Head(elems)
             fname == Strip(PyOr(FindText(f.fieldName, None), << >>))
             fuuid == Strip(PyOr(FindText(f.uuid, None), << >>))
             ftype == friendly_type(PyOr(FindText(f.type, None), << >>))
         IN  ( IF Retained(fname, fuuid)
               THEN << [ name |-> fname, uuid |-> fuuid, type |-> ftype ] >>
               ELSE << >> )
             \o ParseFields(Tail(elems))

RECURSIVE ParseRels(_)
ParseRels(elems) ==
    IF elems = << >> THEN << >>
    ELSE LET rcfg  == Head(elems)
             ruuid == Strip(PyOr(FindText(rcfg.uuid, None), << >>))
             rname == Strip(PyOr(FindText(rcfg.relationshipName, None), << >>))
             raw   == RelRaw(FindText(rcfg.relationshipType, None))
             rtype == RelType(raw)
         IN  ( IF Retained(ruuid, rname)
               THEN << [ name |-> rname, uuid |-> ruuid, type |-> rtype ] >>
               ELSE << >> )
             \o ParseRels(Tail(elems))

\* The title of an action: the two texts are or-ed first and trimmed after.
ActionTitle(ac) ==
    Strip(PyOr(PyOr(FindText(ac.staticTitle, << >>), << >>),
               PyOr(FindText(ac.staticTitleString, << >>), << >>)))

RECURSIVE ParseActions(_)
ParseActions(act_cfgs) ==
    IF act_cfgs = << >> THEN << >>
    ELSE LET ac    == Head(act_cfgs)
             auuid == PyOr(ac.a_uuid, << >>)
             akey  == Strip(PyOr(FindText(ac.referenceKey, << >>), << >>))
             title == ActionTitle(ac)
         IN  ( IF Retained(auuid, akey)
               THEN << [ name |-> PyOr(title, akey), uuid |-> auuid, key |-> akey ] >>
               ELSE << >> )
             \o ParseActions(Tail(act_cfgs))

\* ET.parse or the check for <recordType> raises.
ParseRaises(d) == d.kind # "recordType"

\* rt_uuid of each script: only the batch script ends the chain with `or ""`.
RtUuidSingle(d) == PyOr(d.a_uuid, d.uuid)

RtUuidBatch(d) == PyOr(PyOr(d.a_uuid, d.uuid), << >>)

\* What parse_recordtype returns but for rt_uuid, alike in both scripts.
RecordOf(d, rt_uuid) ==
    [ uuid          |-> rt_uuid,
      name          |-> PyOr(d.name, << >>),
      description   |-> IF d.description = None
                        THEN << >>
                        ELSE Strip(PyOr(d.description, << >>)),
      fields        |-> ParseFields(d.fields),
      relationships |-> ParseRels(d.rels),
      actions       |-> ParseActions(d.listActions \o d.relatedActions) ]

\* parse_recordtype() of the single script, for a document that does not raise.
parse_recordtype_single(d) == RecordOf(d, RtUuidSingle(d))

\* parse_recordtype() of the batch script, for a document that does not raise.
parse_recordtype_batch(d) == RecordOf(d, RtUuidBatch(d))

\* ------------------------------------------------------------ the renderer

TXT_Intro ==
    << "T","h","i","s"," ","d","o","c","u","m","e","n","t"," ","p","r","o","v","i","d","e","s",
       " ","t","h","e"," ","s","p","e","c","i","f","i","c"," ","r","e","c","o","r","d"," ","t",
       "y","p","e"," ","d","e","f","i","n","i","t","i","o","n","s"," ","f","o","r"," ","u","s",
       "e"," ","w","h","e","n"," ","c","r","e","a","t","i","n","g"," ","S","A","I","L"," ","e",
       "x","p","r","e","s","s","i","o","n","s",".","\n" >>

TXT_Wrapper ==
    << "<","a","v","a","i","l","a","b","l","e","_","r","e","c","o","r","d","_","t","y","p","e",
       "s",">" >>

TXT_Heading ==
    << "#","#"," ","A","v","a","i","l","a","b","l","e"," ","R","e","c","o","r","d"," ","T","y",
       "p","e","s","\n" >>

TXT_RecordTypeLabel ==
    << "*","*","R","e","c","o","r","d"," ","T","y","p","e","*","*",":"," ",BQ >>

TXT_DescriptionLabel ==
    << "*","*","D","e","s","c","r","i","p","t","i","o","n","*","*",":"," " >>

TXT_NotProvided ==
    << "N","o","t"," ","p","r","o","v","i","d","e","d","." >>

TXT_FieldsLabel ==
    << "\n","*","*","F","i","e","l","d","s","*","*",":","\n" >>

TXT_FieldsHeader ==
    << "|"," ","*","*","F","i","e","l","d"," ","N","a","m","e","*","*"," ","|"," ","*","*","D",
       "a","t","a"," ","T","y","p","e","*","*"," ","|"," ","*","*","F","i","e","l","d"," ","R",
       "e","f","e","r","e","n","c","e","*","*"," ","|" >>

TXT_FieldsRule ==
    << "|","-","-","-","-","-","-","-","-","-","-","-","-","-","-","-","-","|","-","-","-","-",
       "-","-","-","-","-","-","-","-","-","-","-","|","-","-","-","-","-","-","-","-","-","-",
       "-","-","-","-","-","-","-","-","-","-","-","|" >>

TXT_RelsLabel ==
    << "\n","*","*","R","e","l","a","t","i","o","n","s","h","i","p","s","*","*",":","\n" >>

TXT_RelsHeader ==
    << "|"," ","*","*","R","e","l","a","t","i","o","n","s","h","i","p"," ","N","a","m","e","*",
       "*"," ","|"," ","*","*","T","y","p","e","*","*"," ","|"," ","*","*","R","e","l","a","t",
       "i","o","n","s","h","i","p"," ","R","e","f","e","r","e","n","c","e","*","*"," ","|" >>

TXT_RelsRule ==
    << "|","-","-","-","-","-","-","-","-","-","-","-","-","-","-","-","-","-","-","-","-","-",
       "-","|","-","-","-","-","-","-","-","-","-","-","|","-","-","-","-","-","-","-","-","-",
       "-","-","-","-","-","-","-","-","-","-","-","-","-","-","-","-","-","-","|" >>

TXT_RelsNote ==
    << "\n","*","*","N","o","t","e","*","*",":"," ","A","c","c","e","s","s"," ","a","n","y",
       " ","f","i","e","l","d"," ","f","r","o","m"," ","r","e","l","a","t","e","d"," ","r","e",
       "c","o","r","d","s"," ","u","s","i","n","g",":"," ",BQ,"[","r","e","l","a","t","i","o",
       "n","s","h","i","p","R","e","f","e","r","e","n","c","e","]",".","f","i","e","l","d","s",
       ".","{","f","i","e","l","d","U","u","i","d","}","f","i","e","l","d","N","a","m","e",BQ,
       "\n" >>

TXT_NotAvailable ==
    << "N","o","t"," ","a","v","a","i","l","a","b","l","e","\n" >>

TXT_UserFilters ==
    << "*","*","U","s","e","r"," ","F","i","l","t","e","r","s","*","*",":","\n","\n","N","o",
       "t"," ","a","v","a","i","l","a","b","l","e","\n" >>

TXT_ActionsLabel ==
    << "*","*","R","e","c","o","r","d"," ","A","c","t","i","o","n","s","*","*",":","\n" >>

TXT_ActionsHeader ==
    << "\n","|"," ","*","*","A","c","t","i","o","n"," ","N","a","m","e","*","*"," ","|"," ",
       "*","*","A","c","t","i","o","n"," ","R","e","f","e","r","e","n","c","e","*","*"," ","|" >>

TXT_ActionsRule ==
    << "|","-","-","-","-","-","-","-","-","-","-","-","-","-","-","-","-","|","-","-","-","-",
       "-","-","-","-","-","-","-","-","-","-","-","-","-","-","-","-","-","|" >>

TXT_ActionsNone ==
    << "\n","N","o","t"," ","a","v","a","i","l","a","b","l","e","\n" >>

TXT_WrapperEnd ==
    << "<","/","a","v","a","i","l","a","b","l","e","_","r","e","c","o","r","d","_","t","y","p",
       "e","s",">","\n" >>

TXT_RefHead ==
    << "'","r","e","c","o","r","d","T","y","p","e","!","{" >>

TXT_Bar == << " ","|"," " >>

\* f"'recordType!{{{rt['uuid']}}}{rt['name']}'"
EntityRef(rt) ==
    TXT_RefHead \o Fmt(rt.uuid) \o << "}" >> \o rt.name \o << "'" >>

\* A plausible slip: a separator between the closing brace and the child name.
ChildRef_Separated(rt, category, child_uuid, child_name) ==
    TXT_RefHead \o Fmt(rt.uuid) \o << "}" >> \o rt.name \o << "." >> \o category
        \o << ".", "{" >> \o child_uuid \o << "}", "." >> \o child_name \o << "'" >>

\* f"'recordType!{{{rt['uuid']}}}{rt['name']}.<category>.{{{c['uuid']}}}{c[...]}'"
ChildRef(rt, category, child_uuid, child_name) ==
    TXT_RefHead \o Fmt(rt.uuid) \o << "}" >> \o rt.name \o << "." >> \o category
        \o << ".", "{" >> \o child_uuid \o << "}" >> \o child_name \o << "'" >>

FieldRow(rt, f) ==
    << "|", " " >> \o f.name \o TXT_Bar \o f.type \o TXT_Bar \o << BQ >>
        \o ChildRef(rt, << "f","i","e","l","d","s" >>, f.uuid, f.name) \o << BQ, " ", "|" >>

RelRow(rt, r) ==
    << "|", " " >> \o r.name \o TXT_Bar \o r.type \o TXT_Bar \o << BQ >>
        \o ChildRef(rt, << "r","e","l","a","t","i","o","n","s","h","i","p","s" >>,
                r.uuid, r.name) \o << BQ, " ", "|" >>

ActionRow(rt, a) ==
    << "|", " " >> \o a.name \o TXT_Bar \o << BQ >>
        \o ChildRef(rt, << "a","c","t","i","o","n","s" >>, a.uuid, a.key) \o << BQ, " ", "|" >>

\* The list out of render_markdown, which both scripts build alike but for tag.
RenderOut(rt, doc_title, tag) ==
    << << "#", " " >> \o doc_title \o << "\n" >>,
       TXT_Intro,
       TXT_Wrapper,
       TXT_Heading,
       << "<" >> \o tag \o << ">" >>,
       << "#", "#", "#", " " >> \o rt.name,
       TXT_RecordTypeLabel \o EntityRef(rt) \o << BQ, "\n" >>,
       TXT_DescriptionLabel,
       PyOr(rt.description, TXT_NotProvided),
       TXT_FieldsLabel,
       TXT_FieldsHeader,
       TXT_FieldsRule >>
    \o [ i \in DOMAIN rt.fields |-> FieldRow(rt, rt.fields[i]) ]
    \o << TXT_RelsLabel >>
    \o ( IF rt.relationships # << >>
         THEN << TXT_RelsHeader, TXT_RelsRule >>
              \o [ i \in DOMAIN rt.relationships |-> RelRow(rt, rt.relationships[i]) ]
              \o << TXT_RelsNote >>
         ELSE << TXT_NotAvailable >> )
    \o << TXT_UserFilters, TXT_ActionsLabel >>
    \o ( IF rt.actions # << >>
         THEN << TXT_ActionsHeader, TXT_ActionsRule >>
              \o [ i \in DOMAIN rt.actions |-> ActionRow(rt, rt.actions[i]) ]
              \o << << >> >>
         ELSE << TXT_ActionsNone >> )
    \o << << "<", "/" >> \o tag \o << ">", "\n" >>,
          TXT_WrapperEnd >>

\* render_markdown() of the single script.
render_markdown_single(rt, doc_title) ==
    Join(<< "\n" >>, RenderOut(rt, doc_title, TagSingle(rt.name)))

\* render_markdown() of the batch script.
render_markdown_batch(rt, doc_title) ==
    Join(<< "\n" >>, RenderOut(rt, doc_title, TagBatch(rt.name)))

\* f"{rt['name']} Record Type Context Reference"
DefaultTitle(rt) ==
    rt.name \o << " ","R","e","c","o","r","d"," ","T","y","p","e"," ","C","o","n","t","e","x",
                  "t"," ","R","e","f","e","r","e","n","c","e" >>

\* ------------------------------------------------- text inspection helpers

\* The physical lines of a text: str.split("\n").
RECURSIVE Lines(_)
Lines(text) ==
    IF \E i \in DOMAIN text : text[i] = "\n"
    THEN LET k == CHOOSE i \in DOMAIN text :
                    text[i] = "\n" /\ \A j \in 1 .. (i - 1) : text[j] # "\n"
         IN  << SubSeq(text, 1, k - 1) >> \o Lines(SubSeq(text, k + 1, Len(text)))
    ELSE << text >>

\* p occurs in s as a substring.
Contains(s, p) ==
    \E i \in 1 .. (Len(s) - Len(p) + 1) : SubSeq(s, i, i + Len(p) - 1) = p

RECURSIVE SelectLines(_, _)
SelectLines(ls, p) ==
    IF ls = << >> THEN << >>
    ELSE IF Contains(Head(ls), p) THEN << Head(ls) >> \o SelectLines(Tail(ls), p)
    ELSE SelectLines(Tail(ls), p)

\* All strings over alphabet of length at most n.
RECURSIVE StringsUpTo(_, _)
StringsUpTo(alphabet, n) ==
    IF n = 0 THEN { << >> }
    ELSE LET shorter == StringsUpTo(alphabet, n - 1)
         IN  shorter \cup { Append(s, c) : s \in shorter, c \in alphabet }

\* All sequences over S of length at most n.
RECURSIVE SeqsUpTo(_, _)
SeqsUpTo(S, n) ==
    IF n = 0 THEN { << >> }
    ELSE LET shorter == SeqsUpTo(S, n - 1)
         IN  shorter \cup { Append(q, e) : q \in shorter, e \in S }

\* ------------------------------------------------------------------------
\* Each specification below runs one part of the program and leaves the
\* variables of the other parts at rest.
\* ------------------------------------------------------------------------

SlugIdle ==
    /\ sName = << >> /\ sPc = "off"
    /\ slug1 = None /\ slug2 = None /\ snake1 = None /\ snake2 = None
    /\ tagSingle = None /\ tagBatch = None

NormIdle == nRaw = << >> /\ nPc = "off" /\ nType = None /\ nKind = None

ConvIdle == script = "none" /\ doc = None /\ cPc = "off" /\ rec = None /\ md = None

BatchIdle ==
    /\ in_dir = << >> /\ out_dir = << >> /\ xml_files = << >> /\ bPc = "off"
    /\ idx = 0 /\ count_ok = 0 /\ log = << >> /\ returned = None

\* ------------------------------------------------------------------------
\* SpecSlug: the slug operation of both scripts, applied once, twice and by
\* the renderer to arbitrary entity names.
\* ------------------------------------------------------------------------

\* An upper- and a lower-case letter, a digit, the separator, punctuation and
\* whitespace.
SlugAlphabet == { "A", "b", "7", "_", "!", " " }

SlugNames ==
    StringsUpTo(SlugAlphabet, MaxLen)
        \cup { RECORD_TYPE, << "!","!","!" >>, << "I","n","v","o","i","c","e" >>,
                << "R","e","c","o","r","d"," ","T","y","p",
                                                       "e" >>,
               << " ","O","r","d","e","r","-","L","i","n","e"," "," ","I","t","e","m"," " >> }

\* The record of an entity that has a name and nothing else.
BareEntity(name) ==
    [ uuid |-> << >>, name |-> name, description |-> << >>,
      fields |-> << >>, relationships |-> << >>, actions |-> << >> ]

\* The entries of out that hold the opening and the closing tag.
TagLines(out) == << out[5], out[Len(out) - 1] >>

SlugInit ==
    /\ sName \in SlugNames
    /\ sPc = "slug"
    /\ slug1 = None /\ slug2 = None
    /\ snake1 = None /\ snake2 = None
    /\ tagSingle = None /\ tagBatch = None
    /\ NormIdle /\ ConvIdle /\ BatchIdle

CallSlug ==
    /\ sPc = "slug"
    /\ slug1' = slug(sName)
    /\ sPc' = "slug_again"
    /\ UNCHANGED << sName, slug2, snake1, snake2, tagSingle, tagBatch >>
    /\ UNCHANGED << normVars, convVars, batchVars >>

CallSlugAgain ==
    /\ sPc = "slug_again"
    /\ slug2' = slug(slug1)
    /\ sPc' = "snake"
    /\ UNCHANGED << sName, slug1, snake1, snake2, tagSingle, tagBatch >>
    /\ UNCHANGED << normVars, convVars, batchVars >>

CallToSnakeCase ==
    /\ sPc = "snake"
    /\ snake1' = to_snake_case(sName)
    /\ sPc' = "snake_again"
    /\ UNCHANGED << sName, slug1, slug2, snake2, tagSingle, tagBatch >>
    /\ UNCHANGED << normVars, convVars, batchVars >>

CallToSnakeCaseAgain ==
    /\ sPc = "snake_again"
    /\ snake2' = to_snake_case(snake1)
    /\ sPc' = "render_single"
    /\ UNCHANGED << sName, slug1, slug2, snake1, tagSingle, tagBatch >>
    /\ UNCHANGED << normVars, convVars, batchVars >>

RenderTagsSingle ==
    /\ sPc = "render_single"
    /\ tagSingle' = TagLines(RenderOut(BareEntity(sName), DefaultTitle(BareEntity(sName)),
                                       TagSingle(sName)))
    /\ sPc' = "render_batch"
    /\ UNCHANGED << sName, slug1, slug2, snake1, snake2, tagBatch >>
    /\ UNCHANGED << normVars, convVars, batchVars >>

RenderTagsBatch ==
    /\ sPc = "render_batch"
    /\ tagBatch' = TagLines(RenderOut(BareEntity(sName), DefaultTitle(BareEntity(sName)),
                                      TagBatch(sName)))
    /\ sPc' = "done"
    /\ UNCHANGED << sName, slug1, slug2, snake1, snake2, tagSingle >>
    /\ UNCHANGED << normVars, convVars, batchVars >>

SlugNext ==
    \/ CallSlug
    \/ CallSlugAgain
    \/ CallToSnakeCase
    \/ CallToSnakeCaseAgain
    \/ RenderTagsSingle
    \/ RenderTagsBatch

SpecSlug == SlugInit /\ [][SlugNext]_vars

\* ------------------------------------------------------------------------
\* SpecNorm: friendly_type and the relationship-kind normalization of
\* parse_recordtype, applied to arbitrary raw tokens.
\* ------------------------------------------------------------------------

\* Letters of a dictionary key, the braces of a prefix, whitespace, the
\* underscore and an upper-case letter for the relationship kinds.
NormAlphabet == { "I", "n", "t", "{", "}", " ", "_", "A" }

NormRaws ==
    StringsUpTo(NormAlphabet, MaxLen)
        \cup DOMAIN TYPE_MAP \cup DOMAIN REL_MAP
        \cup { << "{","h","t","t","p",":","/","/","x","}","I","n","t" >>,
                << "{","a","}","{","b","}","G","u","i","d" >>, << " ","L","o","n","g"," " >>,
                << "{","x","}"," ","I","n",
                                                                    "t" >>,
               << "D","e","c","i","m","a","l" >>, << " ","S","e","l","f","_","J","o","i","n"," " >>,
                       << "m","a","n","y","_","t","o","_","m","a","n",
                                                  "y" >> }

NormInit ==
    /\ nRaw \in NormRaws
    /\ nPc = "type"
    /\ nType = None /\ nKind = None
    /\ SlugIdle /\ ConvIdle /\ BatchIdle

CallFriendlyType ==
    /\ nPc = "type"
    /\ nType' = friendly_type(nRaw)
    /\ nPc' = "kind"
    /\ UNCHANGED << nRaw, nKind >>
    /\ UNCHANGED << slugVars, convVars, batchVars >>

NormalizeRelationshipKind ==
    /\ nPc = "kind"
    /\ nKind' = RelType(RelRaw(nRaw))
    /\ nPc' = "done"
    /\ UNCHANGED << nRaw, nType >>
    /\ UNCHANGED << slugVars, convVars, batchVars >>

NormNext ==
    \/ CallFriendlyType
    \/ NormalizeRelationshipKind

SpecNorm == NormInit /\ [][NormNext]_vars

\* ------------------------------------------------------------------------
\* Spec: one conversion, parse_recordtype then render_markdown, by either
\* script, of documents that vary the identity, the fields, the
\* relationships, the actions and the characters of identifiers and names.
\* ------------------------------------------------------------------------

FieldElem(n, u, t) == [ fieldName |-> n, uuid |-> u, type |-> t ]

RelElem(u, n, t) == [ uuid |-> u, relationshipName |-> n, relationshipType |-> t ]

ActionElem(u, k, t1, t2) ==
    [ a_uuid |-> u, referenceKey |-> k, staticTitle |-> t1, staticTitleString |-> t2 ]

RecordTypeDoc(au, u, n, d, fs, rs, las, ras) ==
    [ kind |-> "recordType", a_uuid |-> au, uuid |-> u, name |-> n, description |-> d,
      fields |-> fs, rels |-> rs, listActions |-> las, relatedActions |-> ras ]

OtherDoc(k) ==
    [ kind |-> k, a_uuid |-> None, uuid |-> None, name |-> None, description |-> None,
      fields |-> << >>, rels |-> << >>, listActions |-> << >>, relatedActions |-> << >> ]

MalformedDoc == OtherDoc("malformed")

NoRecordTypeDoc == OtherDoc("no_recordType")

TotalField == FieldElem(<< "T","o","t","a","l" >>, << "f","1" >>, << "I","n","t" >>)

\* Scenario A: identifier 123, name Invoice, no description, one field.
ScenarioA ==
    RecordTypeDoc(<< "1","2","3" >>, None, << "I","n","v","o","i","c","e" >>, None,
                  << TotalField >>, << >>, << >>, << >>)

FieldElems ==
    { TotalField,
      FieldElem(<< " ","D","u","e"," ","D","a","t","e"," " >>, << " ","f","2"," " >>,
              << "{","x","}","D","a","t","e" >>),
      FieldElem(None, << "f","3" >>, << "T","e","x","t" >>),
      FieldElem(<< "O","r","p","h","a","n" >>, << >>, None),
      FieldElem(<< " " >>, << "f","5" >>, << "C","u","s","t","o","m" >>) }

RelElems ==
    { RelElem(<< "r","1" >>, << "c","u","s","t","o","m","e","r" >>,
            << "M","A","N","Y","_","T","O","_","O","N","E" >>),
      RelElem(<< " ","r","2"," " >>, << " ","l","i","n","e","s"," " >>,
              << " ","M","A","N","Y","_","T","O","_","M","A","N","Y",
                                          " " >>),
      RelElem(<< "r","3" >>, << "s","e","l","f" >>, << "S","e","l","f","_","J","o","i","n" >>),
      RelElem(None, << "n","o","u","u","i","d" >>, << "O","N","E","_","T","O","_","O","N","E" >>),
      RelElem(<< "r","5" >>, << " " >>, None) }

\* Scenario D is the first: an empty title with reference key viewDetails.
ActionElems ==
    { ActionElem(<< "a","1" >>, << "v","i","e","w","D","e","t","a","i","l","s" >>, << >>, None),
      ActionElem(<< "a","2" >>, << " ","e","d","i","t"," " >>, << " ","E","d","i","t"," " >>,
              << "O","t","h","e","r" >>),
      ActionElem(<< "a","3" >>, << "a","p","p","r","o","v","e" >>, None,
              << "A","p","p","r","o","v","e" >>),
      ActionElem(<< "a","4" >>, << "c","r","e","a","t","e" >>, << " " >>,
              << "C","r","e","a","t","e" >>),
      ActionElem(None, << "n","o","u","u","i","d" >>, << "L","o","s","t" >>, None),
      ActionElem(<< "a","6" >>, << " " >>, << "B","l","a","n","k" >>, None) }

IdentityDocs ==
    { RecordTypeDoc(au, u, n, d, << TotalField >>, << >>, << >>, << >>) :
        au \in { None, << >>, << "1","2","3" >> },
        u  \in { None, << "u","9" >> },
        n  \in { None, << "I","n","v","o","i","c","e" >>, << "!","!","!" >> },
        d  \in { None, << >>, << " ","A","n"," ","i","n","v","o","i","c","e","."," " >> } }

FieldDocs ==
    { RecordTypeDoc(<< "1","2","3" >>, None, << "I","n","v","o","i","c","e" >>, None, fs, << >>,
            << >>, << >>) :
        fs \in SeqsUpTo(FieldElems, MaxElems) }

RelDocs ==
    { RecordTypeDoc(<< "1","2","3" >>, None, << "I","n","v","o","i","c","e" >>, None,
            << TotalField >>, rs, << >>, << >>) :
        rs \in SeqsUpTo(RelElems, MaxElems) }

ActionDocs ==
    { RecordTypeDoc(<< "1","2","3" >>, None, << "I","n","v","o","i","c","e" >>, None,
            << TotalField >>, << >>, las, ras) :
        las \in SeqsUpTo(ActionElems, MaxElems),
        ras \in SeqsUpTo(ActionElems, 1) }

\* Identifiers and names with the punctuation of the reference grammar in them.
PunctAlphabet == { "a", ".", "{", "}", "'", "|" }

PunctStrings ==
    ( StringsUpTo(PunctAlphabet, MaxIdLen) \ { << >> } )
        \cup { << "a",".","b","{","c","}","'","d" >>,
                << "f","i","e","l","d","s",".","{","x","}","y" >> }

PunctEntityDocs ==
    { RecordTypeDoc(i, None, n, None,
                    << FieldElem(<< "f",".","n" >>, << "{","f","}" >>, << "I","n","t" >>) >>,
                    << RelElem(<< "r","'","1" >>, << "r",".","n" >>,
                            << "O","N","E","_","T","O","_","O","N","E" >>) >>,
                    << ActionElem(<< "a","}","1" >>, << "k",".","{","e","}","y" >>, << "T" >>,
                            None) >>, << >>) :
        i \in PunctStrings, n \in PunctStrings }

PunctChildDocs ==
    { RecordTypeDoc(<< "1","2","3" >>, None, << "I","n","v","o","i","c","e" >>, None,
                    << FieldElem(n, i, << "I","n","t" >>) >>,
                    << RelElem(i, n, << "O","N","E","_","T","O","_","O","N","E" >>) >>,
                    << >>,
                    << ActionElem(i, n, None, None) >>) :
        i \in PunctStrings, n \in PunctStrings }

Docs ==
    { MalformedDoc, NoRecordTypeDoc, ScenarioA }
        \cup IdentityDocs \cup FieldDocs \cup RelDocs \cup ActionDocs
        \cup PunctEntityDocs \cup PunctChildDocs

parse_recordtype(which, d) ==
    IF which = "single" THEN parse_recordtype_single(d) ELSE parse_recordtype_batch(d)

render_markdown(which, rt, doc_title) ==
    IF which = "single"
    THEN render_markdown_single(rt, doc_title)
    ELSE render_markdown_batch(rt, doc_title)

ConvInit ==
    /\ script \in { "single", "batch" }
    /\ doc \in Docs
    /\ cPc = "parse"
    /\ rec = None
    /\ md = None
    /\ SlugIdle /\ NormIdle /\ BatchIdle

\* parse_recordtype returns the record.
Parse ==
    /\ cPc = "parse"
    /\ ~ParseRaises(doc)
    /\ rec' = parse_recordtype(script, doc)
    /\ cPc' = "render"
    /\ UNCHANGED << script, doc, md >>
    /\ UNCHANGED << slugVars, normVars, batchVars >>

\* parse_recordtype raises: ET.ParseError or ValueError.
ParseFails ==
    /\ cPc = "parse"
    /\ ParseRaises(doc)
    /\ cPc' = "raised"
    /\ UNCHANGED << script, doc, rec, md >>
    /\ UNCHANGED << slugVars, normVars, batchVars >>

\* render_markdown with the default title.
Render ==
    /\ cPc = "render"
    /\ md' = render_markdown(script, rec, DefaultTitle(rec))
    /\ cPc' = "done"
    /\ UNCHANGED << script, doc, rec >>
    /\ UNCHANGED << slugVars, normVars, batchVars >>

Next ==
    \/ Parse
    \/ ParseFails
    \/ Render

Spec == ConvInit /\ [][Next]_vars

\* ------------------------------------------------------------------------
\* SpecBatch: process_directory over a directory of documents, any of which
\* may fail to parse and any write of which may fail.
\* ------------------------------------------------------------------------

\* Invoice again under another identifier and spelling: the same slug.
InvoiceAgain ==
    RecordTypeDoc(<< "4","5","6" >>, None, << " ","i","n","v","o","i","c","e","!"," " >>, None,
                  << TotalField >>, << >>, << >>, << >>)

Punctuated ==
    RecordTypeDoc(<< "7","8","9" >>, None, << "!","!","!" >>, None, << >>, << >>, << >>, << >>)

BatchDocs == { ScenarioA, InvoiceAgain, Punctuated, MalformedDoc, NoRecordTypeDoc }

\* The file names are 1 .. MaxFiles, ordered as their paths sort.
Directories ==
    UNION { [ names -> BatchDocs ] : names \in SUBSET (1 .. MaxFiles) }

\* sorted(in_dir.glob("*.xml"))
RECURSIVE sorted(_)
sorted(S) ==
    IF S = { } THEN << >>
    ELSE LET m == CHOOSE x \in S : \A y \in S : x <= y
         IN  << m >> \o sorted(S \ { m })

\* f"data-model-context-{name_snake}.md"
out_name(rt) ==
    << "d","a","t","a","-","m","o","d","e","l","-","c","o","n","t","e","x","t","-" >>
            \o to_snake_case(rt.name) \o << ".","m","d" >>

\* A plausible slip: the exception leaves the loop.
ExceptClause_Reraise(file, count, lg) ==
    [ bPc |-> "aborted", count_ok |-> count, log |-> lg ]

\* except Exception as e: print(f"FAIL: ..."), and the loop goes on.
ExceptClause(file, count, lg) ==
    [ bPc      |-> "loop",
      count_ok |-> count,
      log      |-> Append(lg, [ kind |-> "FAIL", file |-> file, path |-> None ]) ]

\* print(f"OK: ..."); count_ok += 1
OkClause(file, path, count, lg) ==
    [ count_ok |-> count + 1,
      log      |-> Append(lg, [ kind |-> "OK", file |-> file, path |-> path ]) ]

\* out_path.write_text(md) on the directory.
WriteText(dir, path, text) ==
    [ p \in DOMAIN dir \cup { path } |-> IF p = path THEN text ELSE dir[p] ]

BatchInit ==
    /\ in_dir \in Directories
    /\ out_dir = << >>
    /\ xml_files = << >>
    /\ bPc = "list"
    /\ idx = 0
    /\ count_ok = 0
    /\ log = << >>
    /\ returned = None
    /\ SlugIdle /\ NormIdle /\ ConvIdle

\* The files are listed and sorted; with none, 0 is returned at once.
ListFiles ==
    /\ bPc = "list"
    /\ xml_files' = sorted(DOMAIN in_dir)
    /\ IF DOMAIN in_dir = { }
       THEN bPc' = "done" /\ returned' = 0 /\ idx' = idx
       ELSE bPc' = "loop" /\ returned' = returned /\ idx' = 1
    /\ count_ok' = 0
    /\ UNCHANGED << in_dir, out_dir, log >>
    /\ UNCHANGED << slugVars, normVars, convVars >>

\* One iteration in which nothing raises.
IterOk ==
    /\ bPc = "loop" /\ idx <= Len(xml_files)
    /\ ~ParseRaises(in_dir[xml_files[idx]])
    /\ LET xml_path == xml_files[idx]
           rt       == parse_recordtype_batch(in_dir[xml_path])
           out_path == out_name(rt)
           text     == render_markdown_batch(rt, DefaultTitle(rt))
           ok       == OkClause(xml_path, out_path, count_ok, log)
       IN  /\ out_dir' = WriteText(out_dir, out_path, text)
           /\ count_ok' = ok.count_ok
           /\ log' = ok.log
    /\ idx' = idx + 1
    /\ UNCHANGED << in_dir, xml_files, bPc, returned >>
    /\ UNCHANGED << slugVars, normVars, convVars >>

\* One iteration in which parse_recordtype raises.
IterParseRaises ==
    /\ bPc = "loop" /\ idx <= Len(xml_files)
    /\ ParseRaises(in_dir[xml_files[idx]])
    /\ LET ex == ExceptClause(xml_files[idx], count_ok, log)
       IN  /\ bPc' = ex.bPc
           /\ count_ok' = ex.count_ok
           /\ log' = ex.log
    /\ idx' = idx + 1
    /\ UNCHANGED << in_dir, out_dir, xml_files, returned >>
    /\ UNCHANGED << slugVars, normVars, convVars >>

\* One iteration in which write_text raises: before the file is opened, or
\* after it was created or truncated.
IterWriteRaises ==
    /\ bPc = "loop" /\ idx <= Len(xml_files)
    /\ ~ParseRaises(in_dir[xml_files[idx]])
    /\ LET xml_path == xml_files[idx]
           rt       == parse_recordtype_batch(in_dir[xml_path])
           out_path == out_name(rt)
           ex       == ExceptClause(xml_path, count_ok, log)
       IN  /\ \/ out_dir' = out_dir
              \/ out_dir' = WriteText(out_dir, out_path, << >>)
           /\ bPc' = ex.bPc
           /\ count_ok' = ex.count_ok
           /\ log' = ex.log
    /\ idx' = idx + 1
    /\ UNCHANGED << in_dir, xml_files, returned >>
    /\ UNCHANGED << slugVars, normVars, convVars >>

\* return count_ok
Return ==
    /\ bPc = "loop" /\ idx > Len(xml_files)
    /\ returned' = count_ok
    /\ bPc' = "done"
    /\ UNCHANGED << in_dir, out_dir, xml_files, idx, count_ok, log >>
    /\ UNCHANGED << slugVars, normVars, convVars >>

BatchNext ==
    \/ ListFiles
    \/ IterOk
    \/ IterParseRaises
    \/ IterWriteRaises
    \/ Return

SpecBatch == BatchInit /\ [][BatchNext]_vars

\* ------------------------------------------------------------------------
\* The claims.
\* ------------------------------------------------------------------------

\* The trimmed text of a sub-element, empty when the sub-element is absent.
Trimmed(text) == IF text = None THEN << >> ELSE Strip(text)

\* out is src with some elements left out: answers[i, j] tells whether the
\* i-th of out answers the j-th of src.
IsSubseqBy(out, src, answers) ==
    \/ out = << >>
    \/ \E f \in [ DOMAIN out -> DOMAIN src ] :
          /\ \A i, j \in DOMAIN out : i < j => f[i] < f[j]
          /\ \A i \in DOMAIN out : answers[i, f[i]]

OkEntries == { k \in DOMAIN log : log[k].kind = "OK" }

IsSortedSeq(q) == \A i, j \in DOMAIN q : i < j => q[i] < q[j]

\* C1: process_directory never aborts the batch on a single failure. Once
\* the files are listed, xml_files holds every input exactly once in sorted
\* order; the k-th line printed is the one outcome, OK or FAIL, of the k-th
\* file; a document that cannot be parsed gets FAIL; count_ok is the number of
\* OK lines; and when the loop has been left every file has its line and the
\* returned count is the number of OK lines.
C1_BatchNeverAborts ==
    /\ bPc \notin { "off", "list" } =>
          /\ IsSortedSeq(xml_files)
          /\ Range(xml_files) = DOMAIN in_dir
          /\ Len(log) <= Len(xml_files)
          /\ \A k \in DOMAIN log :
                /\ log[k].file = xml_files[k]
                /\ log[k].kind \in { "OK", "FAIL" }
                /\ ParseRaises(in_dir[log[k].file]) => log[k].kind = "FAIL"
          /\ count_ok = Cardinality(OkEntries)
    /\ bPc \notin { "off", "list", "loop" } =>
          /\ Len(log) = Len(xml_files)
          /\ returned = Cardinality(OkEntries)

\* A finished batch in which a failure was followed by a success.
C1_Witness ==
    /\ bPc = "done"
    /\ \E k, j \in DOMAIN log : k < j /\ log[k].kind = "FAIL" /\ log[j].kind = "OK"
    /\ returned >= 1 /\ returned < Len(log)

\* C2: the batch produces one output file per input. When process_directory
\* has returned, every input reported OK has an output file of its own that
\* holds that input's markdown, so the files written for the OK inputs are
\* as many as the returned count.
C2_OneOutputPerInput ==
    bPc = "done" =>
       /\ \A k \in OkEntries :
             LET rt == parse_recordtype_batch(in_dir[log[k].file])
             IN  /\ log[k].path \in DOMAIN out_dir
                 /\ out_dir[log[k].path] = render_markdown_batch(rt, DefaultTitle(rt))
       /\ \A k, j \in OkEntries : k # j => log[k].path # log[j].path
       /\ Cardinality({ log[k].path : k \in OkEntries }) = returned

\* The first non-empty line after the line that is label.
LineUnder(lines, label) ==
    LET i == CHOOSE n \in DOMAIN lines : lines[n] = label
        j == CHOOSE n \in DOMAIN lines :
                /\ n > i /\ lines[n] # << >>
                /\ \A m \in (i + 1) .. (n - 1) : lines[m] = << >>
    IN  lines[j]

ShowsNotAvailableUnder(text, label) ==
    /\ \E n \in DOMAIN Lines(text) : Lines(text)[n] = label
    /\ LineUnder(Lines(text), label) = << "N","o","t"," ","a","v","a","i","l","a","b","l","e" >>

\* What scenario A promises of the sections other than Description.
ScenarioA_Sections(text) ==
    /\ Contains(text, << "T","o","t","a","l"," ","|"," ","I","n","t","e","g","e","r"," ","|",
                         " ",BQ,"'","r","e","c","o","r","d","T","y","p","e","!","{","1","2",
                         "3","}","I","n","v","o","i","c","e",".","f","i","e","l","d","s",".",
                         "{","f","1","}","T","o","t","a","l","'",BQ >>)
    /\ ShowsNotAvailableUnder(text, << "*","*","R","e","l","a","t","i","o","n","s","h","i","p",
                                       "s","*","*",":" >>)
    /\ ShowsNotAvailableUnder(text, << "*","*","U","s","e","r"," ","F","i","l","t","e","r","s",
                                       "*","*",":" >>)
    /\ ShowsNotAvailableUnder(text, << "*","*","R","e","c","o","r","d"," ","A","c","t","i","o",
                                       "n","s","*","*",":" >>)

\* C3: scenario A. The markdown of the entity 123 / Invoice with the one
\* field Total / f1 / Int contains "**Description**: Not provided.", contains
\* the Fields row of Total, and shows Not available under Relationships,
\* User Filters and Record Actions.
C3_ScenarioA ==
    ( cPc = "done" /\ doc = ScenarioA ) =>
       /\ Contains(md, << "*","*","D","e","s","c","r","i","p","t","i","o","n","*","*",":"," ",
                          "N","o","t"," ","p","r","o","v","i","d","e","d","." >>)
       /\ ScenarioA_Sections(md)

\* The reference grammar of section 4.3 of the specification.
GrammarEntity(entity_id, entity_name) ==
    << "'" >> \o << "r","e","c","o","r","d","T","y","p","e","!" >> \o << "{" >>
            \o entity_id \o << "}" >> \o entity_name

GrammarRef(entity_id, entity_name) == GrammarEntity(entity_id, entity_name) \o << "'" >>

GrammarChildRef(entity_id, entity_name, category, child_id, child_name) ==
    GrammarEntity(entity_id, entity_name) \o << "." >> \o category \o << "." >>
        \o << "{" >> \o child_id \o << "}" >> \o child_name \o << "'" >>

\* What a line holds between its first and its last backtick.
BetweenBackticks(line) ==
    LET ticks == { i \in DOMAIN line : line[i] = BQ }
        first == CHOOSE i \in ticks : \A j \in ticks : i <= j
        last  == CHOOSE i \in ticks : \A j \in ticks : j <= i
    IN  SubSeq(line, first + 1, last - 1)

\* The references of a text, in order: one on each line that has recordType! in it.
ReferencesOf(text) ==
    LET ls == SelectLines(Lines(text), << "r","e","c","o","r","d","T","y","p","e","!" >>)
    IN  [ i \in DOMAIN ls |-> BetweenBackticks(ls[i]) ]

\* C4: every reference string of the markdown has the shape of the grammar.
\* For a record whose identifier is a string, the references of the markdown
\* are, in order: the entity's 'recordType!{ID}NAME', then one
\* 'recordType!{ID}NAME.fields.{CHILD_ID}CHILD_NAME' per field, one with
\* relationships per relationship and one with actions per action (the child
\* name of an action being its reference key), with identifiers and names
\* verbatim and nothing between a closing brace and the name.
C4_ReferenceGrammar ==
    ( cPc = "done" /\ rec.uuid # None ) =>
       ReferencesOf(md) =
          << GrammarRef(rec.uuid, rec.name) >>
          \o [ i \in DOMAIN rec.fields |->
                 GrammarChildRef(rec.uuid, rec.name, << "f","i","e","l","d","s" >>,
                                 rec.fields[i].uuid, rec.fields[i].name) ]
          \o [ i \in DOMAIN rec.relationships |->
                 GrammarChildRef(rec.uuid, rec.name, << "r","e","l","a","t","i","o","n","s",
                                                        "h","i","p","s" >>,
                                 rec.relationships[i].uuid, rec.relationships[i].name) ]
          \o [ i \in DOMAIN rec.actions |->
                 GrammarChildRef(rec.uuid, rec.name, << "a","c","t","i","o","n","s" >>,
                                 rec.actions[i].uuid, rec.actions[i].key) ]

\* A rendered entity whose identifier and name hold the grammar's punctuation
\* and which has a field, a relationship and an action.
C4_Witness ==
    /\ cPc = "done"
    /\ rec.uuid = << "a",".","b","{","c","}","'","d" >>
            /\ rec.name = << "f","i","e","l","d","s",".","{","x","}","y" >>
    /\ Len(rec.fields) = 1 /\ Len(rec.relationships) = 1 /\ Len(rec.actions) = 1

\* C5: a missing entity identity is the empty string, in both scripts. With
\* neither uuid attribute the record's uuid is "", with no name attribute its
\* name is "", and the self-reference is 'recordType!{}NAME'; a namespaced
\* uuid is used when there is one, the unnamespaced one only otherwise.
C5_MissingIdentityIsEmpty ==
    cPc \in { "render", "done" } =>
       /\ ( doc.a_uuid = None /\ doc.uuid = None ) => rec.uuid = << >>
       /\ doc.name = None => rec.name = << >>
       /\ Truthy(doc.a_uuid) => rec.uuid = doc.a_uuid
       /\ ( doc.a_uuid = None /\ doc.uuid # None ) => rec.uuid = doc.uuid
       /\ ( cPc = "done" /\ doc.a_uuid = None /\ doc.uuid = None ) =>
             ReferencesOf(md)[1] = GrammarRef(<< >>, rec.name)

\* C6: the slug operation is idempotent. slug of the single script and
\* to_snake_case of the batch script give, applied to their own result, that
\* result again.
C6_SlugIdempotent ==
    /\ slug2 # None => slug2 = slug1
    /\ snake2 # None => snake2 = snake1

\* Both functions were applied twice to a name that the first application
\* changed into a non-empty slug.
C6_Witness ==
    /\ sPc = "done"
    /\ slug1 # << >> /\ slug1 # sName /\ snake1 # sName
    /\ Head(sName) = "!" /\ sName[Len(sName)] = "_"

\* The tag that the line of an opening tag carries.
TagOf(open_line) == SubSeq(open_line, 2, Len(open_line) - 1)

\* The two lines are the opening and the closing tag of tag.
AreTagsOf(tag_lines, tag) ==
    /\ tag_lines[1] = << "<" >> \o tag \o << ">" >>
    /\ tag_lines[2] = << "<", "/" >> \o tag \o << ">", "\n" >>

\* Lowercase letters, digits and single separators between them.
IsCleanTag(tag) ==
    /\ tag # << >>
    /\ \A i \in DOMAIN tag :
          tag[i] \in Range(LowerSeq) \cup Range(DigitSeq) \cup { "_" }
    /\ tag[1] # "_" /\ tag[Len(tag)] # "_"
    /\ \A i \in 1 .. (Len(tag) - 1) : ~( tag[i] = "_" /\ tag[i + 1] = "_" )

NoAlnum(name) == \A i \in DOMAIN name : ~IsAlnum(name[i])

\* What claim C7 says but for when the tag is the fallback.
C7_TagShape ==
    /\ AreTagsOf(tagSingle, TagOf(tagSingle[1]))
    /\ AreTagsOf(tagBatch, TagOf(tagBatch[1]))
    /\ TagOf(tagSingle[1]) = TagOf(tagBatch[1])
    /\ TagOf(tagBatch[1]) = snake1
    /\ TagOf(tagSingle[1]) = IF slug1 = << >> THEN RECORD_TYPE ELSE slug1
    /\ IsCleanTag(TagOf(tagSingle[1]))

\* C7 as amended: the opening and the closing tag carry the same tag, which
\* is to_snake_case(name) in the batch script and slug(name), or record_type
\* when that is empty, in the single script; the two are equal; the tag is
\* non-empty, of lowercase letters, digits and single inner separators; and it
\* is record_type whenever the name has no ASCII letter or digit.
C7_TagAmended ==
    sPc = "done" =>
       /\ C7_TagShape
       /\ NoAlnum(sName) => TagOf(tagSingle[1]) = RECORD_TYPE

\* C7 as claimed: the same, with the tag being record_type exactly when the
\* name is empty or has no ASCII letter or digit.
C7_TagAsClaimed ==
    sPc = "done" =>
       /\ C7_TagShape
       /\ NoAlnum(sName) <=> TagOf(tagSingle[1]) = RECORD_TYPE

\* The tags of scenario B: a name of punctuation only.
C7_Witness ==
    /\ sPc = "done"
    /\ sName = << "!","!","!" >>
    /\ tagSingle[1] = << "<","r","e","c","o","r","d","_","t","y","p","e",">" >>
            /\ tagBatch[2] = << "<","/","r","e","c","o","r","d",
                                                             "_","t","y","p","e",">","\n" >>

\* The type dictionary as the specification lists it.
TypeDictionary ==
    ( << "I","n","t" >> :> << "I","n","t","e","g","e","r" >> ) @@ ( << "L","o","n","g" >>
            :> << "I","n","t","e","g","e","r" >> ) @@
    ( << "T","e","x","t" >> :> << "T","e","x","t" >> ) @@ ( << "B","o","o","l","e","a","n" >>
            :> << "B","o","o","l","e","a","n" >> ) @@
    ( << "D","a","t","e" >> :> << "D","a","t","e" >> ) @@ ( << "D","a","t","e","t","i","m","e" >>
            :> << "D","a","t","e","t","i","m","e" >> ) @@
    ( << "U","s","e","r" >> :> << "U","s","e","r" >> ) @@
    ( << "C","o","l","l","a","b","o","r","a","t","i","o","n","D","o","c","u","m","e","n","t" >>
            :> << "C","o","l","l","a","b","o","r","a","t","i","o","n","D",
                                       "o","c","u","m","e","n","t" >> ) @@
    ( << "D","o","c","u","m","e","n","t" >> :> << "D","o","c","u","m","e","n","t" >> )
            @@ ( << "G","u","i","d" >> :> << "T","e","x","t" >> )

\* raw without a leading {...} prefix.
WithoutBracePrefix(raw) ==
    IF raw # << >> /\ raw[1] = "{" /\ \E i \in DOMAIN raw : raw[i] = "}"
    THEN LET k == CHOOSE i \in DOMAIN raw :
                    raw[i] = "}" /\ \A j \in 1 .. (i - 1) : raw[j] # "}"
         IN  SubSeq(raw, k + 1, Len(raw))
    ELSE raw

\* The dictionary value of a key, any other value unchanged.
TypeOf(value) ==
    IF value \in DOMAIN TypeDictionary THEN TypeDictionary[value] ELSE value

\* The label of one of the four kinds, any other token lowercased with
\* hyphens for underscores.
KindOf(token) ==
    IF token = << "O","N","E","_","T","O","_","M","A","N","Y" >>
    THEN << "o","n","e","-","t","o","-","m","a","n","y" >>
    ELSE IF token = << "M","A","N","Y","_","T","O","_","O","N","E" >>
    THEN << "m","a","n","y","-","t","o","-","o","n","e" >>
    ELSE IF token = << "O","N","E","_","T","O","_","O","N","E" >>
    THEN << "o","n","e","-","t","o","-","o","n","e" >>
    ELSE IF token = << "M","A","N","Y","_","T","O","_","M","A","N","Y" >>
    THEN << "m","a","n","y","-","t","o","-","m","a","n","y" >>
    ELSE [ i \in DOMAIN token |->
             IF token[i] = "_" THEN "-" ELSE LowerChar(token[i]) ]

\* C8 as amended: the normalizers are total and pass unmapped inputs
\* through. friendly_type trims raw of surrounding whitespace first; the
\* result is the dictionary value when the trimmed raw, after discarding a
\* leading brace-delimited prefix, is a dictionary key, and otherwise that
\* value unchanged. The kind of a (trimmed) relationship-kind token is the
\* label of one of the four kinds, else the token lowercased with a hyphen
\* for every underscore.
C8_NormalizersAmended ==
    /\ nPc \in { "kind", "done" } =>
          /\ nType # None
          /\ nType = TypeOf(WithoutBracePrefix(Strip(nRaw)))
    /\ nPc = "done" =>
          /\ nKind # None
          /\ nKind = KindOf(Strip(nRaw))

\* C8 as claimed: the same, of raw as it is given to friendly_type.
C8_NormalizersAsClaimed ==
    /\ nPc \in { "kind", "done" } =>
          /\ nType # None
          /\ nType = TypeOf(WithoutBracePrefix(nRaw))
    /\ nPc = "done" =>
          /\ nKind # None
          /\ nKind = KindOf(Strip(nRaw))

\* A padded token that neither dictionary holds, passed through by both.
C8_Witness ==
    /\ nPc = "done"
    /\ nRaw = << " ","S","e","l","f","_","J","o","i","n"," " >>
    /\ nType = << "S","e","l","f","_","J","o","i","n" >>
            /\ nKind = << "s","e","l","f","-","j","o","i","n" >>

FieldAnswers(out, src) ==
    [ i \in DOMAIN out, j \in DOMAIN src |->
        out[i].name = Trimmed(src[j].fieldName) /\ out[i].uuid = Trimmed(src[j].uuid) ]

RelAnswers(out, src) ==
    [ i \in DOMAIN out, j \in DOMAIN src |->
        /\ out[i].name = Trimmed(src[j].relationshipName)
        /\ out[i].uuid = Trimmed(src[j].uuid) ]

ActionAnswers(out, src) ==
    [ i \in DOMAIN out, j \in DOMAIN src |->
        out[i].key = Trimmed(src[j].referenceKey) /\ out[i].uuid = src[j].a_uuid ]

\* The actions of the record up to its n-th, and from its n-th on.
ActionsUpTo(n) == SubSeq(rec.actions, 1, n)

ActionsFrom(n) == SubSeq(rec.actions, n, Len(rec.actions))

\* C9: the retention invariant of parse_recordtype. Every field and every
\* relationship of the record has a non-empty name and identifier, every
\* action a non-empty identifier and reference key; the fields, the
\* relationships and the actions are each the matched elements, in source
\* order, with some left out (never more than were matched), the actions
\* being record-list actions first and related actions after them.
C9_Retention ==
    cPc \in { "render", "done" } =>
       /\ \A i \in DOMAIN rec.fields :
             rec.fields[i].name # << >> /\ rec.fields[i].uuid # << >>
       /\ \A i \in DOMAIN rec.relationships :
             rec.relationships[i].name # << >> /\ rec.relationships[i].uuid # << >>
       /\ \A i \in DOMAIN rec.actions :
             rec.actions[i].uuid # << >> /\ rec.actions[i].key # << >>
       /\ Len(rec.fields) <= Len(doc.fields)
       /\ Len(rec.relationships) <= Len(doc.rels)
       /\ Len(rec.actions) <= Len(doc.listActions) + Len(doc.relatedActions)
       /\ IsSubseqBy(rec.fields, doc.fields, FieldAnswers(rec.fields, doc.fields))
       /\ IsSubseqBy(rec.relationships, doc.rels,
                     RelAnswers(rec.relationships, doc.rels))
       /\ \E n \in 0 .. Len(rec.actions) :
             /\ IsSubseqBy(ActionsUpTo(n), doc.listActions,
                           ActionAnswers(ActionsUpTo(n), doc.listActions))
             /\ IsSubseqBy(ActionsFrom(n + 1), doc.relatedActions,
                           ActionAnswers(ActionsFrom(n + 1), doc.relatedActions))

\* A record-list action was dropped, one was kept and a related action
\* follows it.
C9_Witness ==
    /\ cPc = "render"
    /\ Len(doc.listActions) = 2 /\ Len(doc.relatedActions) = 1
    /\ Len(rec.actions) = 2
    /\ rec.actions[1].uuid = << "a","2" >> /\ rec.actions[2].uuid = << "a","1" >>

\* The display name the claim gives an action: the first title text that is
\* not empty, else the reference key.
ClaimedDisplayName(e) ==
    IF Trimmed(e.staticTitle) # << >> THEN Trimmed(e.staticTitle)
    ELSE IF Trimmed(e.staticTitleString) # << >> THEN Trimmed(e.staticTitleString)
    ELSE Trimmed(e.referenceKey)

\* C10: the display name of a retained action is the text of the first of
\* staticTitle and staticTitleString that is non-empty, the reference key
\* when no title text is available, and never empty. (Stated of the
\* documents all of whose actions are retained, where the i-th action of the
\* record is the i-th matched element.)
C10_ActionDisplayName ==
    ( /\ cPc \in { "render", "done" }
      /\ Len(rec.actions) = Len(doc.listActions) + Len(doc.relatedActions) ) =>
       \A i \in DOMAIN rec.actions :
          /\ rec.actions[i].name # << >>
          /\ rec.actions[i].name =
                ClaimedDisplayName((doc.listActions \o doc.relatedActions)[i])

====
